---------------------------- MODULE Spec2Model ----------------------------
(***************************************************************************)
(* Live-reload server (src/live.go, src/reloader.go).                      *)
(*                                                                         *)
(* Goroutines modelled:                                                    *)
(*   - the watcher loop started by Reloader.Watch,                         *)
(*   - the ticker loop broadcastInterval,                                  *)
(*   - one waitForBroadcast goroutine per upgraded websocket connection.   *)
(* Shared state: versionCounter (uint64), the mutex broadcastCondMu with   *)
(* the condition variable broadcastCond, and the Reloader's template map.  *)
(*                                                                         *)
(* Strings that the code slices (file names, the template extension, map   *)
(* keys) are sequences of one-character strings, so that the suffix test   *)
(* and the key derivation are computed the way the code computes them.     *)
(*                                                                         *)
(* versionCounter is a uint64.  Spec caps it at MaxVersion, far below      *)
(* 2^64, so no step of Spec wraps it; WrapSpec counts it modulo 2^Width    *)
(* and lets it go round.  The plain reads of versionCounter in             *)
(* waitForBroadcast are modelled as reads of the value the counter has at  *)
(* that step (an aligned 64-bit load).                                     *)
(*                                                                         *)
(* Specifications:                                                         *)
(*   Spec       the watcher (reload as one step), the ticker, the sessions *)
(*   FairSpec   Spec with the fairness the Go scheduler gives              *)
(*   FairSends  FairSpec with every write call returning                   *)
(*   StoreSpec  the watcher with reload step by step under the Reloader's  *)
(*              RWMutex, the callers of Get and the requests in render     *)
(*   WrapSpec   Spec's goroutines with a versionCounter that wraps         *)
(***************************************************************************)
EXTENDS Integers, Sequences, FiniteSets, TLC

\* ------------------------------------------------------------------ bounds
\* Number of websocket connections that may be upgraded.
NumSessions == 2

\* Cap on versionCounter (number of wanted events the watcher may take).
MaxVersion == 2

\* Width in bits of versionCounter where its wrap-around is modelled (the
\* program's counter is a uint64; the wrap is the same at any width).
Width == 2

\* Number of concurrent callers of Reloader.Get, and of page requests that
\* are inside render at the same time.
NumGetters == 1
NumHandlers == 1

\* --------------------------------------------------------------- constants
\* const TemplateExt = ".html"
TemplateExt == <<".", "h", "t", "m", "l">>

\* const TemplatePath = "./"
TemplatePath == <<".", "/">>

\* The file name reload() skips: TemplatePath + "reload.go".
SelfPath == TemplatePath \o <<"r", "e", "l", "o", "a", "d", ".", "g", "o">>

\* The key main() loads the initial template under: "index".
IndexKey == <<"i", "n", "d", "e", "x">>

\* ------------------------------------------------------------- environment
\* fsnotify operation kinds carried by an event.
Ops == {"CREATE", "WRITE", "REMOVE", "RENAME", "CHMOD"}

\* File names the watcher may report for the watched directory "./".
IndexHtml == TemplatePath \o IndexKey \o TemplateExt
NotesTxt == TemplatePath \o <<"n", ".", "t", "x", "t">>
ShortName == <<"h", "t", "m", "l">>
Paths == {IndexHtml, NotesTxt, SelfPath, ShortName}

\* What template.ParseFiles may find in a file: a template that parses, or
\* text that does not.
Contents == {"v1"}
Malformed == "malformed"

Sessions == 1..NumSessions
NoSession == 0

\* Goroutines that call Reloader.Get, and HTTP handler goroutines in render.
Getters == 1..NumGetters
Handlers == 1..NumHandlers

\* A nil *template.Template.
NoTemplate == "nil"

\* versionCounter counts modulo 2^Width where the wrap is modelled; the
\* wanted events taken there go one past a full turn of the counter.
Modulus == 2 ^ Width
MaxWrapEvents == Modulus + 1
NoEvent == [Name |-> <<>>, Op |-> "NONE"]

VARIABLES
    versionCounter, \* var versionCounter uint64
    mu,             \* holder of broadcastCondMu, or NoSession
    templates,      \* Reloader.templates: key -> compiled template
    wpc,            \* watcher goroutine: position in the loop body
    evt,            \* watcher goroutine: the event being handled
    werr,           \* watcher goroutine: what r.reload returned and was printed
    crashed,        \* the process died of an unrecovered panic
    pc,             \* waitForBroadcast: position, per session
    oldVersion,     \* waitForBroadcast: local oldVersion, per session
    err,            \* waitForBroadcast: a write returned an error
    wokenBy,        \* who issued the Broadcast that woke the session, from
                    \* the wake until the write of that iteration returns
    wakeSent,       \* messages written in the current loop iteration
    snapped,        \* the session has taken its first snapshot
    unreported,     \* increments of versionCounter since that first snapshot
                    \* minus the build_complete messages written since
    owed,           \* versionCounter was incremented after the session's
                    \* first snapshot and after its last build_complete
    handled,        \* wanted events the watcher has handled to the end
    since,          \* increments of versionCounter between the session's
                    \* last snapshot and its comparison after the wake
    readerCount,    \* Reloader.RWMutex: read sides held
    writerHeld,     \* Reloader.RWMutex: the write side is held
    writerWaiting,  \* Reloader.RWMutex: a Lock call has announced itself and
                    \* new RLock calls queue behind it
    wtmpl,          \* reload: local tmpl, the template just parsed
    gpc,            \* a caller of Reloader.Get: position, per caller
    ggot,           \* Reloader.Get: what the lookup found, per caller
    rpc,            \* render in a page request: position, per request handler
    rgot,           \* render: the template the map read began with
    raced           \* render: the map was written while the map read ran

vars == <<versionCounter, mu, templates, wpc, evt, werr, crashed, pc,
          oldVersion, err, wokenBy, wakeSent, snapped, unreported, owed,
          handled, since, readerCount, writerHeld, writerWaiting, wtmpl,
          gpc, ggot, rpc, rgot, raced>>

\* What the watcher goroutine alone writes, and what the sessions alone write.
watcherVars == <<templates, wpc, evt, werr, handled, crashed>>
sessionVars == <<mu, oldVersion, err, wakeSent, snapped>>

\* The Reloader's lock, the reload's local and the lookups of the store.
storeVars == <<readerCount, writerHeld, writerWaiting, wtmpl, gpc, ggot, rpc,
               rgot, raced>>

\* ------------------------------------------------------------------ helpers
\* name[len(name)-len(TemplateExt):] == TemplateExt, guarded by the length.
HasSuffix(name, ext) ==
    /\ Len(name) >= Len(ext)
    /\ SubSeq(name, Len(name) - Len(ext) + 1, Len(name)) = ext

\* key := name[0 : len(name)-len(TemplateExt)]
KeyOf(name) == SubSeq(name, 1, Len(name) - Len(TemplateExt))

\* r.templates[key] = tmpl
StoreSet(store, key, tmpl) ==
    [k \in (DOMAIN store) \cup {key} |-> IF k = key THEN tmpl ELSE store[k]]

\* eventIsWanted with the "remove" kind let through as well.
eventIsWantedOrRemove(op) == op \in {"WRITE", "CREATE", "REMOVE"}

\* eventIsWanted: the switch compares op with Write and Create.
eventIsWanted(op) == op \in {"WRITE", "CREATE"}

\* Broadcast issued only with broadcastCondMu held by the caller, as in
\* L.Lock(); Broadcast(); L.Unlock(): it has to wait for a free mutex.
BroadcastLocked(by) ==
    /\ mu = NoSession
    /\ pc' = [s \in Sessions |-> IF pc[s] = "blocked" THEN "woken" ELSE pc[s]]
    /\ wokenBy' = [s \in Sessions |->
                      IF pc[s] = "blocked" THEN by ELSE wokenBy[s]]

\* A broadcast that is latched: a session that holds the mutex and is about
\* to wait takes the notify at once and goes on to its comparison.
BroadcastLatched(by) ==
    /\ pc' = [s \in Sessions |->
                 IF pc[s] = "blocked" THEN "woken"
                 ELSE IF pc[s] = "wait" THEN "cmp" ELSE pc[s]]
    /\ wokenBy' = [s \in Sessions |->
                      IF pc[s] \in {"blocked", "wait"} THEN by ELSE wokenBy[s]]

\* sync.Cond.Broadcast: every goroutine parked in Wait is made runnable; it
\* still has to reacquire the mutex.  The caller does not hold the mutex.
Broadcast(by) ==
    /\ pc' = [s \in Sessions |-> IF pc[s] = "blocked" THEN "woken" ELSE pc[s]]
    /\ wokenBy' = [s \in Sessions |->
                      IF pc[s] = "blocked" THEN by ELSE wokenBy[s]]

\* ------------------------------------------------------------------ initial
Init ==
    /\ versionCounter = 0
    /\ mu = NoSession
    /\ templates = (IndexKey :> "v0")
    /\ wpc = "idle"
    /\ evt = NoEvent
    /\ werr = "nil"
    /\ crashed = FALSE
    /\ pc = [s \in Sessions |-> "absent"]
    /\ oldVersion = [s \in Sessions |-> 0]
    /\ err = [s \in Sessions |-> FALSE]
    /\ wokenBy = [s \in Sessions |-> "none"]
    /\ wakeSent = [s \in Sessions |-> <<>>]
    /\ snapped = [s \in Sessions |-> FALSE]
    /\ unreported = [s \in Sessions |-> 0]
    /\ owed = [s \in Sessions |-> FALSE]
    /\ handled = 0
    /\ since = [s \in Sessions |-> 0]
    /\ readerCount = 0
    /\ writerHeld = FALSE
    /\ writerWaiting = FALSE
    /\ wtmpl = NoTemplate
    /\ gpc = [g \in Getters |-> "idle"]
    /\ ggot = [g \in Getters |-> NoTemplate]
    /\ rpc = [h \in Handlers |-> "idle"]
    /\ rgot = [h \in Handlers |-> NoTemplate]
    /\ raced = [h \in Handlers |-> FALSE]

\* A session that has taken its first snapshot and has not left its loop.
Connected(s) == snapped[s] /\ pc[s] \notin {"unlock", "done"}

\* A session between its snapshot and the comparison that follows the wake.
Counting(s) == pc[s] \in {"wait", "blocked", "woken", "cmp"}

\* ----------------------------------------------------------------- watcher
\* case evt := <-r.Watcher.Events, and the filter: an unwanted event is
\* dropped and the loop selects again.
WatchRecv(name, op) ==
    /\ ~crashed
    /\ wpc = "idle"
    /\ IF eventIsWanted(op)
         THEN /\ versionCounter < MaxVersion
              /\ wpc' = "reload"
              /\ evt' = [Name |-> name, Op |-> op]
         ELSE UNCHANGED <<wpc, evt>>
    /\ UNCHANGED <<versionCounter, templates, werr, handled, crashed>>
    /\ UNCHANGED <<pc, wokenBy, unreported, owed>>
    /\ UNCHANGED sessionVars
    /\ UNCHANGED since
    /\ UNCHANGED storeVars

\* r.reload(evt.Name) and the print of the error it returned.  The loop body
\* does not read evt after this call, so the model forgets it here.
\*   name == TemplatePath+"reload.go"        -> nil, nothing done
\*   name ends in TemplateExt, file parses   -> map entry replaced, nil
\*   name ends in TemplateExt, parse fails   -> template.Must panics
\*   otherwise                               -> "Unable to reload file"
WatchReload ==
    /\ ~crashed
    /\ wpc = "reload"
    /\ IF evt.Name = SelfPath
         THEN /\ wpc' = "inc"
              /\ evt' = NoEvent
              /\ UNCHANGED <<templates, werr, crashed>>
         ELSE IF HasSuffix(evt.Name, TemplateExt)
           THEN \E c \in Contents \cup {Malformed} :
                  IF c = Malformed
                    THEN /\ crashed' = TRUE
                         /\ UNCHANGED <<templates, werr, wpc, evt>>
                    ELSE /\ templates' = StoreSet(templates, KeyOf(evt.Name), c)
                         /\ wpc' = "inc"
                         /\ evt' = NoEvent
                         /\ UNCHANGED <<werr, crashed>>
           ELSE /\ werr' = "unable"
                /\ wpc' = "inc"
                /\ evt' = NoEvent
                /\ UNCHANGED <<templates, crashed>>
    /\ UNCHANGED <<versionCounter, handled>>
    /\ UNCHANGED <<pc, wokenBy, unreported, owed>>
    /\ UNCHANGED sessionVars
    /\ UNCHANGED since
    /\ UNCHANGED storeVars

\* atomic.AddUint64(&versionCounter, 1)
WatchInc ==
    /\ ~crashed
    /\ wpc = "inc"
    /\ versionCounter' = versionCounter + 1
    /\ wpc' = "bcast"
    /\ unreported' = [s \in Sessions |->
                         IF Connected(s) THEN unreported[s] + 1
                                         ELSE unreported[s]]
    /\ owed' = [s \in Sessions |-> owed[s] \/ Connected(s)]
    /\ UNCHANGED <<templates, evt, werr, handled, crashed>>
    /\ UNCHANGED <<pc, wokenBy>>
    /\ UNCHANGED sessionVars
    /\ since' = [s \in Sessions |->
                    IF Counting(s) THEN since[s] + 1 ELSE since[s]]
    /\ UNCHANGED storeVars

\* broadcastCond.Broadcast() in the watcher loop; back to the select.
WatchBroadcast ==
    /\ ~crashed
    /\ wpc = "bcast"
    /\ Broadcast("watcher")
    /\ wpc' = "idle"
    /\ werr' = "nil"
    /\ handled' = handled + 1
    /\ UNCHANGED <<versionCounter, templates, evt, crashed, unreported, owed>>
    /\ UNCHANGED sessionVars
    /\ UNCHANGED since
    /\ UNCHANGED storeVars

\* case err := <-r.Watcher.Errors: fmt.Println(err); the loop selects again.
WatchError ==
    /\ ~crashed
    /\ wpc = "idle"
    /\ UNCHANGED vars

\* ------------------------------------------------------------------ ticker
\* The ticker bumping versionCounter before it broadcasts.
TickBumps ==
    /\ ~crashed
    /\ versionCounter < MaxVersion
    /\ versionCounter' = versionCounter + 1
    /\ Broadcast("ticker")
    /\ UNCHANGED <<unreported, owed>>
    /\ UNCHANGED watcherVars
    /\ UNCHANGED sessionVars
    /\ UNCHANGED since
    /\ UNCHANGED storeVars

\* The ticker firing without broadcasting.
TickSilent ==
    /\ ~crashed
    /\ UNCHANGED vars

\* broadcastInterval: case <-ticker.C: broadcastCond.Broadcast()
Tick ==
    /\ ~crashed
    /\ Broadcast("ticker")
    /\ UNCHANGED <<versionCounter, unreported, owed>>
    /\ UNCHANGED watcherVars
    /\ UNCHANGED sessionVars
    /\ UNCHANGED since
    /\ UNCHANGED storeVars

\* ---------------------------------------------------------------- sessions
\* getServeWs: the upgrade succeeded; go waitForBroadcast(conn)
Connect(s) ==
    /\ ~crashed
    /\ pc[s] = "absent"
    /\ pc' = [pc EXCEPT ![s] = "lock"]
    /\ UNCHANGED <<versionCounter, wokenBy, unreported, owed>>
    /\ UNCHANGED watcherVars
    /\ UNCHANGED sessionVars
    /\ UNCHANGED since
    /\ UNCHANGED storeVars

\* broadcastCond.L.Lock() at the top of waitForBroadcast
Lock(s) ==
    /\ ~crashed
    /\ pc[s] = "lock"
    /\ mu = NoSession
    /\ mu' = s
    /\ pc' = [pc EXCEPT ![s] = "snap"]
    /\ UNCHANGED <<versionCounter, wokenBy, unreported, owed>>
    /\ UNCHANGED watcherVars
    /\ UNCHANGED <<oldVersion, err, wakeSent, snapped>>
    /\ UNCHANGED since
    /\ UNCHANGED storeVars

\* The snapshot taken once, before the loop, and never refreshed.
SnapshotOnce(s) ==
    /\ ~crashed
    /\ pc[s] = "snap"
    /\ oldVersion' = IF snapped[s] THEN oldVersion
                                   ELSE [oldVersion EXCEPT ![s] = versionCounter]
    /\ snapped' = [snapped EXCEPT ![s] = TRUE]
    /\ wakeSent' = [wakeSent EXCEPT ![s] = <<>>]
    /\ pc' = [pc EXCEPT ![s] = "wait"]
    /\ UNCHANGED <<versionCounter, wokenBy, unreported, owed>>
    /\ UNCHANGED watcherVars
    /\ UNCHANGED <<mu, err>>
    /\ since' = [since EXCEPT ![s] = 0]
    /\ UNCHANGED storeVars

\* oldVersion = versionCounter, at the top of every loop iteration
Snapshot(s) ==
    /\ ~crashed
    /\ pc[s] = "snap"
    /\ oldVersion' = [oldVersion EXCEPT ![s] = versionCounter]
    /\ snapped' = [snapped EXCEPT ![s] = TRUE]
    /\ wakeSent' = [wakeSent EXCEPT ![s] = <<>>]
    /\ pc' = [pc EXCEPT ![s] = "wait"]
    /\ UNCHANGED <<versionCounter, wokenBy, unreported, owed>>
    /\ UNCHANGED watcherVars
    /\ UNCHANGED <<mu, err>>
    /\ since' = [since EXCEPT ![s] = 0]
    /\ UNCHANGED storeVars

\* broadcastCond.Wait(), first half: enqueue on the notify list and unlock.
Wait(s) ==
    /\ ~crashed
    /\ pc[s] = "wait"
    /\ mu' = NoSession
    /\ pc' = [pc EXCEPT ![s] = "blocked"]
    /\ UNCHANGED <<versionCounter, wokenBy, unreported, owed>>
    /\ UNCHANGED watcherVars
    /\ UNCHANGED <<oldVersion, err, wakeSent, snapped>>
    /\ UNCHANGED since
    /\ UNCHANGED storeVars

\* Wait returning after the wake without reacquiring the mutex.
RelockWithoutMutex(s) ==
    /\ ~crashed
    /\ pc[s] = "woken"
    /\ pc' = [pc EXCEPT ![s] = "cmp"]
    /\ UNCHANGED <<versionCounter, wokenBy, unreported, owed>>
    /\ UNCHANGED watcherVars
    /\ UNCHANGED sessionVars
    /\ UNCHANGED since
    /\ UNCHANGED storeVars

\* broadcastCond.Wait(), second half: after the wake, c.L.Lock() and return.
Relock(s) ==
    /\ ~crashed
    /\ pc[s] = "woken"
    /\ mu = NoSession
    /\ mu' = s
    /\ pc' = [pc EXCEPT ![s] = "cmp"]
    /\ UNCHANGED <<versionCounter, wokenBy, unreported, owed>>
    /\ UNCHANGED watcherVars
    /\ UNCHANGED <<oldVersion, err, wakeSent, snapped>>
    /\ UNCHANGED since
    /\ UNCHANGED storeVars

\* The comparison written as an order test: the build branch only when
\* versionCounter is greater than the snapshot.
CompareLess(s) ==
    /\ ~crashed
    /\ pc[s] = "cmp"
    /\ pc' = [pc EXCEPT ![s] =
                 IF oldVersion[s] < versionCounter THEN "build" ELSE "ping"]
    /\ UNCHANGED <<versionCounter, wokenBy, unreported, owed>>
    /\ UNCHANGED watcherVars
    /\ UNCHANGED sessionVars
    /\ UNCHANGED since
    /\ UNCHANGED storeVars

\* if oldVersion == versionCounter { the ping branch } else the build branch;
\* the session is then inside the write call of that branch.
Compare(s) ==
    /\ ~crashed
    /\ pc[s] = "cmp"
    /\ pc' = [pc EXCEPT ![s] =
                 IF oldVersion[s] = versionCounter THEN "ping" ELSE "build"]
    /\ UNCHANGED <<versionCounter, wokenBy, unreported, owed>>
    /\ UNCHANGED watcherVars
    /\ UNCHANGED sessionVars
    /\ UNCHANGED since
    /\ UNCHANGED storeVars

\* The ping branch without its "continue": after a ping that succeeded the
\* session falls through to the build_complete write.
WritePingFallsThrough(s, ok) ==
    /\ ~crashed
    /\ pc[s] = "ping"
    /\ err' = [err EXCEPT ![s] = ~ok]
    /\ wakeSent' = IF ok THEN [wakeSent EXCEPT ![s] = Append(@, "ping")]
                         ELSE wakeSent
    /\ pc' = [pc EXCEPT ![s] = IF ok THEN "build" ELSE "unlock"]
    /\ UNCHANGED <<versionCounter, wokenBy, unreported, owed>>
    /\ UNCHANGED watcherVars
    /\ UNCHANGED <<mu, oldVersion, snapped>>
    /\ UNCHANGED since
    /\ UNCHANGED storeVars

\* The ping branch without its "break": a failed ping is ignored and the
\* session goes on to the next iteration.
WritePingIgnoresError(s, ok) ==
    /\ ~crashed
    /\ pc[s] = "ping"
    /\ err' = [err EXCEPT ![s] = ~ok]
    /\ wakeSent' = IF ok THEN [wakeSent EXCEPT ![s] = Append(@, "ping")]
                         ELSE wakeSent
    /\ pc' = [pc EXCEPT ![s] = "snap"]
    /\ wokenBy' = [wokenBy EXCEPT ![s] = "none"]
    /\ UNCHANGED <<versionCounter, unreported, owed>>
    /\ UNCHANGED watcherVars
    /\ UNCHANGED <<mu, oldVersion, snapped>>
    /\ UNCHANGED since
    /\ UNCHANGED storeVars

\* conn.WriteMessage(websocket.PingMessage, []byte{}) returns:
\* nil -> continue; an error -> break.
WritePing(s, ok) ==
    /\ ~crashed
    /\ pc[s] = "ping"
    /\ err' = [err EXCEPT ![s] = ~ok]
    /\ wakeSent' = IF ok THEN [wakeSent EXCEPT ![s] = Append(@, "ping")]
                         ELSE wakeSent
    /\ pc' = [pc EXCEPT ![s] = IF ok THEN "snap" ELSE "unlock"]
    /\ wokenBy' = [wokenBy EXCEPT ![s] = "none"]
    /\ UNCHANGED <<versionCounter, unreported, owed>>
    /\ UNCHANGED watcherVars
    /\ UNCHANGED <<mu, oldVersion, snapped>>
    /\ UNCHANGED since
    /\ UNCHANGED storeVars

\* conn.WriteJSON(websocketEvent{Type: "build_complete"}) returns:
\* nil -> next iteration; an error -> break.
WriteBuild(s, ok) ==
    /\ ~crashed
    /\ pc[s] = "build"
    /\ err' = [err EXCEPT ![s] = ~ok]
    /\ wakeSent' = IF ok THEN [wakeSent EXCEPT ![s] = Append(@, "build")]
                         ELSE wakeSent
    /\ unreported' = IF ok THEN [unreported EXCEPT ![s] = @ - 1]
                           ELSE unreported
    /\ owed' = IF ok THEN [owed EXCEPT ![s] = FALSE] ELSE owed
    /\ pc' = [pc EXCEPT ![s] = IF ok THEN "snap" ELSE "unlock"]
    /\ wokenBy' = [wokenBy EXCEPT ![s] = "none"]
    /\ UNCHANGED versionCounter
    /\ UNCHANGED watcherVars
    /\ UNCHANGED <<mu, oldVersion, snapped>>
    /\ UNCHANGED since
    /\ UNCHANGED storeVars

\* The goroutine returning after the loop without broadcastCond.L.Unlock().
UnlockSkipped(s) ==
    /\ ~crashed
    /\ pc[s] = "unlock"
    /\ pc' = [pc EXCEPT ![s] = "done"]
    /\ oldVersion' = [oldVersion EXCEPT ![s] = 0]
    /\ unreported' = [unreported EXCEPT ![s] = 0]
    /\ owed' = [owed EXCEPT ![s] = FALSE]
    /\ since' = [since EXCEPT ![s] = 0]
    /\ UNCHANGED <<versionCounter, wokenBy>>
    /\ UNCHANGED watcherVars
    /\ UNCHANGED <<mu, err, wakeSent, snapped>>
    /\ UNCHANGED storeVars

\* broadcastCond.L.Unlock() after the loop; the goroutine returns, its local
\* oldVersion is gone and nothing is counted for the session any more.
Unlock(s) ==
    /\ ~crashed
    /\ pc[s] = "unlock"
    /\ mu' = NoSession
    /\ pc' = [pc EXCEPT ![s] = "done"]
    /\ oldVersion' = [oldVersion EXCEPT ![s] = 0]
    /\ unreported' = [unreported EXCEPT ![s] = 0]
    /\ owed' = [owed EXCEPT ![s] = FALSE]
    /\ UNCHANGED <<versionCounter, wokenBy>>
    /\ UNCHANGED watcherVars
    /\ UNCHANGED <<err, wakeSent, snapped>>
    /\ since' = [since EXCEPT ![s] = 0]
    /\ UNCHANGED storeVars

\* ----------------------------------------------------------- specification
Next ==
    \/ \E name \in Paths, op \in Ops : WatchRecv(name, op)
    \/ WatchReload
    \/ WatchInc
    \/ WatchBroadcast
    \/ WatchError
    \/ Tick
    \/ \E s \in Sessions : Connect(s)
    \/ \E s \in Sessions : Lock(s)
    \/ \E s \in Sessions : Snapshot(s)
    \/ \E s \in Sessions : Wait(s)
    \/ \E s \in Sessions : Relock(s)
    \/ \E s \in Sessions : Compare(s)
    \/ \E s \in Sessions, ok \in BOOLEAN : WritePing(s, ok)
    \/ \E s \in Sessions, ok \in BOOLEAN : WriteBuild(s, ok)
    \/ \E s \in Sessions : Unlock(s)

Spec == Init /\ [][Next]_vars

\* ---------------------------------------------------------------- fairness
\* One of the two write calls of a session returns.
WriteReturn(s) == \E ok \in BOOLEAN : WritePing(s, ok) \/ WriteBuild(s, ok)

\* What the Go scheduler guarantees: a runnable goroutine runs, the ticker
\* keeps firing, and a goroutine waiting for the mutex gets it if it is
\* released again and again (sync.Mutex hands the lock over in starvation
\* mode).  File events, watcher errors and new connections come from outside
\* and are not forced.  A write on a connection is not forced to return:
\* waitForBroadcast sets no write deadline (writeWait is never used).
Fairness ==
    /\ WF_vars(WatchReload)
    /\ WF_vars(WatchInc)
    /\ WF_vars(WatchBroadcast)
    /\ WF_vars(Tick)
    /\ \A s \in Sessions :
         /\ SF_vars(Lock(s))
         /\ SF_vars(Relock(s))
         /\ WF_vars(Snapshot(s))
         /\ WF_vars(Wait(s))
         /\ WF_vars(Compare(s))
         /\ WF_vars(Unlock(s))

FairSpec == Spec /\ Fairness

\* The same, with every write call returning (with or without an error).
FairSends == FairSpec /\ \A s \in Sessions : WF_vars(WriteReturn(s))

\* ------------------------------------------------- the store and its lock
\* The reload of Reloader.Watch step by step, with the Reloader's RWMutex,
\* next to the goroutines that look templates up: the callers of
\* Reloader.Get and the page requests inside render.  Get has no caller in
\* main; its callers here are the users of the Reloader type.

\* Names a caller may pass to Get: the key main stores, the key reload
\* derives from ./index.html, and a name nothing is stored under.
LookupNames == {IndexKey, KeyOf(IndexHtml), <<"x">>}

\* reload(evt.Name) up to the parse: the three cases of WatchReload, with a
\* template that parses kept in the local tmpl for the locked write.
ReloadParse ==
    /\ ~crashed
    /\ wpc = "reload"
    /\ IF evt.Name = SelfPath
         THEN /\ wpc' = "inc"
              /\ evt' = NoEvent
              /\ UNCHANGED <<werr, crashed, wtmpl>>
         ELSE IF HasSuffix(evt.Name, TemplateExt)
           THEN \E c \in Contents \cup {Malformed} :
                  IF c = Malformed
                    THEN /\ crashed' = TRUE
                         /\ UNCHANGED <<werr, wpc, evt, wtmpl>>
                    ELSE /\ wtmpl' = c
                         /\ wpc' = "wlock"
                         /\ UNCHANGED <<werr, crashed, evt>>
           ELSE /\ werr' = "unable"
                /\ wpc' = "inc"
                /\ evt' = NoEvent
                /\ UNCHANGED <<crashed, wtmpl>>
    /\ UNCHANGED <<versionCounter, templates, handled, since>>
    /\ UNCHANGED <<pc, wokenBy, unreported, owed>>
    /\ UNCHANGED sessionVars
    /\ UNCHANGED <<readerCount, writerHeld, writerWaiting, gpc, ggot, rpc,
                   rgot, raced>>

\* r.Lock(), first half: the writer announces itself; RLock calls that come
\* later queue behind it.
ReloadLockBegin ==
    /\ ~crashed
    /\ wpc = "wlock"
    /\ writerWaiting' = TRUE
    /\ wpc' = "wlockwait"
    /\ UNCHANGED <<versionCounter, templates, evt, werr, handled, crashed,
                   since>>
    /\ UNCHANGED <<pc, wokenBy, unreported, owed>>
    /\ UNCHANGED sessionVars
    /\ UNCHANGED <<readerCount, writerHeld, wtmpl, gpc, ggot, rpc, rgot,
                   raced>>

\* r.Lock(), second half: the read sides held when the writer announced
\* itself have been released and the writer holds the write side.
ReloadLockAcquire ==
    /\ ~crashed
    /\ wpc = "wlockwait"
    /\ readerCount = 0
    /\ writerHeld' = TRUE
    /\ writerWaiting' = FALSE
    /\ wpc' = "set"
    /\ UNCHANGED <<versionCounter, templates, evt, werr, handled, crashed,
                   since>>
    /\ UNCHANGED <<pc, wokenBy, unreported, owed>>
    /\ UNCHANGED sessionVars
    /\ UNCHANGED <<readerCount, wtmpl, gpc, ggot, rpc, rgot, raced>>

\* r.templates[key] = tmpl, with key := name[0 : len(name)-len(TemplateExt)].
\* A map read that is running in another goroutine races with this write.
ReloadSet ==
    /\ ~crashed
    /\ wpc = "set"
    /\ templates' = StoreSet(templates, KeyOf(evt.Name), wtmpl)
    /\ raced' = [h \in Handlers |-> raced[h] \/ rpc[h] = "read"]
    /\ wpc' = "wunlock"
    /\ UNCHANGED <<versionCounter, evt, werr, handled, crashed, since>>
    /\ UNCHANGED <<pc, wokenBy, unreported, owed>>
    /\ UNCHANGED sessionVars
    /\ UNCHANGED <<readerCount, writerHeld, writerWaiting, wtmpl, gpc, ggot,
                   rpc, rgot>>

\* r.Unlock(); return nil
ReloadUnlock ==
    /\ ~crashed
    /\ wpc = "wunlock"
    /\ writerHeld' = FALSE
    /\ wtmpl' = NoTemplate
    /\ evt' = NoEvent
    /\ wpc' = "inc"
    /\ UNCHANGED <<versionCounter, templates, werr, handled, crashed, since>>
    /\ UNCHANGED <<pc, wokenBy, unreported, owed>>
    /\ UNCHANGED sessionVars
    /\ UNCHANGED <<readerCount, writerWaiting, gpc, ggot, rpc, rgot, raced>>

\* Get: r.RLock().  It waits while the write side is held or a writer has
\* announced itself.
GetRLock(g) ==
    /\ ~crashed
    /\ gpc[g] = "idle"
    /\ ~writerHeld
    /\ ~writerWaiting
    /\ readerCount' = readerCount + 1
    /\ gpc' = [gpc EXCEPT ![g] = "look"]
    /\ UNCHANGED <<versionCounter, pc, wokenBy, unreported, owed, since>>
    /\ UNCHANGED watcherVars
    /\ UNCHANGED sessionVars
    /\ UNCHANGED <<writerHeld, writerWaiting, wtmpl, ggot, rpc, rgot, raced>>

\* Get: if t, ok := r.templates[name]; ok { return t }; return nil
GetLookup(g, name) ==
    /\ ~crashed
    /\ gpc[g] = "look"
    /\ ggot' = [ggot EXCEPT ![g] = IF name \in DOMAIN templates
                                     THEN templates[name] ELSE NoTemplate]
    /\ gpc' = [gpc EXCEPT ![g] = "unlock"]
    /\ UNCHANGED <<versionCounter, pc, wokenBy, unreported, owed, since>>
    /\ UNCHANGED watcherVars
    /\ UNCHANGED sessionVars
    /\ UNCHANGED <<readerCount, writerHeld, writerWaiting, wtmpl, rpc, rgot,
                   raced>>

\* Get: the deferred r.Unlock(), which is the release of the WRITE side,
\* called by a goroutine that holds a read side.
\*   the write side is held           -> it is released (not reachable here:
\*                                       the caller's read side excludes it)
\*   a writer has announced itself    -> sync.RWMutex does not notice the
\*                                       misuse: the call returns, the
\*                                       announcement is undone, the read
\*                                       side stays held and the writer
\*                                       keeps waiting for its release
\*   otherwise                        -> fatal error "sync: Unlock of
\*                                       unlocked RWMutex": the process dies
GetUnlock(g) ==
    /\ ~crashed
    /\ gpc[g] = "unlock"
    /\ IF writerHeld
         THEN /\ writerHeld' = FALSE
              /\ gpc' = [gpc EXCEPT ![g] = "idle"]
              /\ ggot' = [ggot EXCEPT ![g] = NoTemplate]
              /\ UNCHANGED <<writerWaiting, crashed>>
         ELSE IF writerWaiting
           THEN /\ writerWaiting' = FALSE
                /\ gpc' = [gpc EXCEPT ![g] = "idle"]
                /\ ggot' = [ggot EXCEPT ![g] = NoTemplate]
                /\ UNCHANGED <<writerHeld, crashed>>
           ELSE /\ crashed' = TRUE
                /\ gpc' = [gpc EXCEPT ![g] = "fatal"]
                /\ UNCHANGED <<writerHeld, writerWaiting, ggot>>
    /\ UNCHANGED <<versionCounter, pc, wokenBy, unreported, owed, since>>
    /\ UNCHANGED <<templates, wpc, evt, werr, handled>>
    /\ UNCHANGED sessionVars
    /\ UNCHANGED <<readerCount, wtmpl, rpc, rgot, raced>>

\* render: tmpl := r.templates["index"], the map read begins.  No lock is
\* taken.
RenderBegin(h) ==
    /\ ~crashed
    /\ rpc[h] = "idle"
    /\ rgot' = [rgot EXCEPT ![h] = templates[IndexKey]]
    /\ rpc' = [rpc EXCEPT ![h] = "read"]
    /\ UNCHANGED <<versionCounter, pc, wokenBy, unreported, owed, since>>
    /\ UNCHANGED watcherVars
    /\ UNCHANGED sessionVars
    /\ UNCHANGED <<readerCount, writerHeld, writerWaiting, wtmpl, gpc, ggot,
                   raced>>

\* render: the map read ends.  It yields the entry as it was when the read
\* began or as it is now; if the map was written meanwhile the runtime may
\* also stop the process ("concurrent map read and map write").
RenderEnd(h) ==
    /\ ~crashed
    /\ rpc[h] = "read"
    /\ \/ /\ \E t \in {rgot[h], templates[IndexKey]} :
                rgot' = [rgot EXCEPT ![h] = t]
          /\ rpc' = [rpc EXCEPT ![h] = "exec"]
          /\ raced' = [raced EXCEPT ![h] = FALSE]
          /\ UNCHANGED crashed
       \/ /\ raced[h]
          /\ crashed' = TRUE
          /\ UNCHANGED <<rgot, rpc, raced>>
    /\ UNCHANGED <<versionCounter, pc, wokenBy, unreported, owed, since>>
    /\ UNCHANGED <<templates, wpc, evt, werr, handled>>
    /\ UNCHANGED sessionVars
    /\ UNCHANGED <<readerCount, writerHeld, writerWaiting, wtmpl, gpc, ggot>>

\* render: tmpl.Execute(w, data); the handler returns.
RenderExecute(h) ==
    /\ ~crashed
    /\ rpc[h] = "exec"
    /\ rgot' = [rgot EXCEPT ![h] = NoTemplate]
    /\ rpc' = [rpc EXCEPT ![h] = "idle"]
    /\ UNCHANGED <<versionCounter, pc, wokenBy, unreported, owed, since>>
    /\ UNCHANGED watcherVars
    /\ UNCHANGED sessionVars
    /\ UNCHANGED <<readerCount, writerHeld, writerWaiting, wtmpl, gpc, ggot,
                   raced>>

StoreNext ==
    \/ \E name \in Paths, op \in Ops : WatchRecv(name, op)
    \/ ReloadParse
    \/ ReloadLockBegin
    \/ ReloadLockAcquire
    \/ ReloadSet
    \/ ReloadUnlock
    \/ WatchInc
    \/ WatchBroadcast
    \/ \E g \in Getters : GetRLock(g)
    \/ \E g \in Getters, name \in LookupNames : GetLookup(g, name)
    \/ \E g \in Getters : GetUnlock(g)
    \/ \E h \in Handlers : RenderBegin(h)
    \/ \E h \in Handlers : RenderEnd(h)
    \/ \E h \in Handlers : RenderExecute(h)

StoreSpec == Init /\ [][StoreNext]_vars

\* ----------------------------------------------- the counter wrapping round
\* The same goroutines with versionCounter counted modulo 2^Width, the way
\* atomic.AddUint64 wraps a uint64, and with enough wanted events for the
\* counter to come round to a session's snapshot.

\* case evt := <-r.Watcher.Events and the filter, as WatchRecv; the number of
\* wanted events taken is capped instead of the counter's value.
WrapRecv(name, op) ==
    /\ ~crashed
    /\ wpc = "idle"
    /\ IF eventIsWanted(op)
         THEN /\ handled < MaxWrapEvents
              /\ wpc' = "reload"
              /\ evt' = [Name |-> name, Op |-> op]
         ELSE UNCHANGED <<wpc, evt>>
    /\ UNCHANGED <<versionCounter, templates, werr, handled, crashed>>
    /\ UNCHANGED <<pc, wokenBy, unreported, owed>>
    /\ UNCHANGED sessionVars
    /\ UNCHANGED since
    /\ UNCHANGED storeVars

\* atomic.AddUint64(&versionCounter, 1) on a counter of Width bits.
WrapInc ==
    /\ ~crashed
    /\ wpc = "inc"
    /\ versionCounter' = (versionCounter + 1) % Modulus
    /\ wpc' = "bcast"
    /\ unreported' = [s \in Sessions |->
                         IF Connected(s) THEN unreported[s] + 1
                                         ELSE unreported[s]]
    /\ owed' = [s \in Sessions |-> owed[s] \/ Connected(s)]
    /\ since' = [s \in Sessions |->
                    IF Counting(s) THEN since[s] + 1 ELSE since[s]]
    /\ UNCHANGED <<templates, evt, werr, handled, crashed>>
    /\ UNCHANGED <<pc, wokenBy>>
    /\ UNCHANGED sessionVars
    /\ UNCHANGED storeVars

WrapNext ==
    \/ \E name \in Paths, op \in Ops : WrapRecv(name, op)
    \/ WatchReload
    \/ WrapInc
    \/ WatchBroadcast
    \/ Tick
    \/ \E s \in Sessions : Connect(s)
    \/ \E s \in Sessions : Lock(s)
    \/ \E s \in Sessions : Snapshot(s)
    \/ \E s \in Sessions : Wait(s)
    \/ \E s \in Sessions : Relock(s)
    \/ \E s \in Sessions : Compare(s)
    \/ \E s \in Sessions, ok \in BOOLEAN : WritePing(s, ok)
    \/ \E s \in Sessions, ok \in BOOLEAN : WriteBuild(s, ok)
    \/ \E s \in Sessions : Unlock(s)

WrapSpec == Init /\ [][WrapNext]_vars

\* ------------------------------------------------------------------ claims

\* C1: no change is lost.  Whenever versionCounter is incremented while a
\* session is connected (it has taken its first snapshot and is in its loop),
\* that session later writes a build_complete, unless one of its writes
\* fails or the process dies first.  owed[s] is raised by the increment and
\* lowered by the session's next successful build_complete.
C1_NoChangeLost ==
    \A s \in Sessions :
        owed[s] ~> (~owed[s] \/ pc[s] \in {"unlock", "done"} \/ crashed)

\* C2: no change is reported twice.  A session has never written more
\* build_complete messages than versionCounter was incremented since the
\* session's first snapshot, and every build_complete it writes comes after
\* an increment that followed its previous build_complete.
\* (unreported[s] is the first number minus the second; a write of
\* build_complete that succeeds is the step from "build" to "snap".)
C2_NoDoubleReport ==
    /\ [](\A s \in Sessions : unreported[s] >= 0)
    /\ [][\A s \in Sessions :
            (pc[s] = "build" /\ pc'[s] = "snap") => owed[s]]_vars

\* C2 witness: versionCounter has been incremented twice and a session that
\* has just written a build_complete has written as many of them as there
\* were increments since its first snapshot.
C2_Witness ==
    \E s \in Sessions :
        /\ pc[s] = "snap"
        /\ wakeSent[s] = <<"build">>
        /\ versionCounter = 2
        /\ unreported[s] = 0
        /\ ~owed[s]

\* C3: diff correctness.  The comparison after a wake sends the session into
\* the ping write exactly when versionCounter equals oldVersion and into the
\* build_complete write otherwise; each write puts only its own kind of
\* message on the wire; and when the session is back at the top of the loop,
\* about to wait again, it has written exactly one message since the wake.
C3_DiffCorrectness ==
    /\ [][\A s \in Sessions :
            (pc[s] = "cmp" /\ pc'[s] # "cmp") =>
                pc'[s] = (IF oldVersion[s] = versionCounter
                            THEN "ping" ELSE "build")]_vars
    /\ [][\A s \in Sessions :
            wakeSent'[s] \notin {wakeSent[s], <<>>} =>
                /\ pc[s] \in {"ping", "build"}
                /\ wakeSent'[s] = Append(wakeSent[s], pc[s])]_vars
    /\ [](\A s \in Sessions :
            (pc[s] = "snap" /\ snapped[s]) =>
                wakeSent[s] \in {<<"ping">>, <<"build">>})

\* C3 witness: two increments were coalesced into one wake, and the session
\* is back at the top of the loop having written a single build_complete.
C3_Witness ==
    \E s \in Sessions :
        /\ pc[s] = "snap"
        /\ wakeSent[s] = <<"build">>
        /\ versionCounter = oldVersion[s] + 2
        /\ unreported[s] = 1
        /\ ~owed[s]

\* C4: dead-connection eviction.  A session has left its loop exactly when
\* one of its writes returned an error; a session that has returned writes
\* nothing more, never takes the mutex and never waits again.
C4_DeadConnectionEviction ==
    /\ [](\A s \in Sessions : pc[s] \in {"unlock", "done"} <=> err[s])
    /\ [][\A s \in Sessions :
            pc[s] = "done" =>
                /\ pc'[s] = "done"
                /\ wakeSent'[s] = wakeSent[s]
                /\ unreported'[s] = unreported[s]
                /\ mu' # s]_vars

\* C4 witness: a session whose write failed has returned; the watcher has
\* incremented versionCounter and is about to broadcast to another session
\* that is blocked in Wait.
C4_Witness ==
    \E s, t \in Sessions :
        /\ pc[s] = "done"
        /\ err[s]
        /\ pc[t] = "blocked"
        /\ wpc = "bcast"

\* C5: a write or create event for a name without the template suffix
\* leaves versionCounter and the template map unchanged while the watcher
\* handles it.
\* (werr = "unable" from the reload of such a name until the watcher is
\* back at its select.)
C5_NoBumpOnUnsupportedPath ==
    [][(\/ /\ wpc = "reload"
           /\ evt.Name # SelfPath
           /\ ~HasSuffix(evt.Name, TemplateExt)
        \/ werr = "unable")
       => (versionCounter' = versionCounter /\ templates' = templates)]_vars

\* C6: filter correctness.  The watcher handles only write and create
\* events, so a remove, rename or chmod event changes nothing; for a write
\* or create event it runs reload on the event's name, which for a name with
\* the template suffix replaces the entry under the name minus the suffix;
\* then it increments versionCounter by exactly 1, then it broadcasts.  The
\* increment and the broadcast happen nowhere else in the watcher.
C6_FilterCorrectness ==
    /\ [](wpc = "reload" => evt.Op \in {"WRITE", "CREATE"})
    /\ [](wpc # "reload" => evt = NoEvent)
    /\ [][wpc' # wpc =>
            <<wpc, wpc'>> \in {<<"idle", "reload">>, <<"reload", "inc">>,
                               <<"inc", "bcast">>, <<"bcast", "idle">>}]_vars
    /\ [][templates' # templates =>
            /\ wpc = "reload" /\ wpc' = "inc"
            /\ HasSuffix(evt.Name, TemplateExt)
            /\ evt.Name = KeyOf(evt.Name) \o TemplateExt
            /\ KeyOf(evt.Name) \in DOMAIN templates'
            /\ \A k \in DOMAIN templates :
                   k # KeyOf(evt.Name) =>
                       k \in DOMAIN templates' /\ templates'[k] = templates[k]]_vars
    /\ [][versionCounter' # versionCounter =>
            /\ wpc = "inc" /\ wpc' = "bcast"
            /\ versionCounter' = versionCounter + 1]_vars
    /\ [][(\E s \in Sessions : wokenBy'[s] = "watcher" /\ pc[s] = "blocked") =>
            wpc = "bcast" /\ wpc' = "idle"]_vars
    /\ [][(wpc = "bcast" /\ wpc' = "idle") =>
            \A s \in Sessions : pc[s] = "blocked" => pc'[s] = "woken"]_vars

\* C6 witness: a write event on ./index.html has been handled to the end:
\* the entry "./index" is in the map, versionCounter is 1 and a session that
\* was blocked has been woken by the watcher's broadcast.
C6_Witness ==
    /\ wpc = "idle"
    /\ handled = 1
    /\ versionCounter = 1
    /\ KeyOf(IndexHtml) \in DOMAIN templates
    /\ \E s \in Sessions : pc[s] = "woken" /\ wokenBy[s] = "watcher"

\* C7: monotonicity and single writer.  versionCounter equals the number of
\* wanted events the watcher has handled to the end (plus one between the
\* increment and the broadcast of the event in hand); it never decreases; a
\* step that changes it is the watcher's increment, adds exactly 1 and moves
\* no session; no step of the ticker or of a session changes it.
C7_Monotonic ==
    /\ [](versionCounter = handled + (IF wpc = "bcast" THEN 1 ELSE 0))
    /\ [][versionCounter' >= versionCounter]_vars
    /\ [][versionCounter' # versionCounter =>
            /\ versionCounter' = versionCounter + 1
            /\ wpc = "inc"
            /\ pc' = pc /\ mu' = mu /\ oldVersion' = oldVersion]_vars

\* C7 witness: two wanted events have been handled while a session was
\* connected, and versionCounter is 2.
C7_Witness ==
    /\ versionCounter = 2
    /\ handled = 2
    /\ \E s \in Sessions : pc[s] = "blocked" /\ unreported[s] = 1

\* C8: a session that was blocked in Wait and was woken by the watcher's
\* broadcast goes into the build_complete write, never into the ping write.
C8_WatcherWakeSendsBuild ==
    \A s \in Sessions :
        (wokenBy[s] = "watcher" /\ pc[s] \in {"ping", "build"}) =>
            pc[s] = "build"

\* C9: no missed wake.  A session that a broadcast has taken off the wait
\* list returns from Wait and performs its compare-and-send step (unless the
\* process dies first).
C9_NoMissedWake ==
    \A s \in Sessions :
        (pc[s] = "woken") ~> (pc[s] \in {"ping", "build"} \/ crashed)

\* C10: the broadcaster is never stalled by sessions.  While the process
\* runs, whatever the sessions are doing (holding the mutex inside a write,
\* having failed a write, having returned), the ticker's broadcast is
\* enabled and the watcher's next step is enabled: receiving an event when
\* it is at the select, and otherwise the reload, the increment or the
\* broadcast it is at.
C10_BroadcasterNotStalled ==
    ~crashed =>
        /\ ENABLED Tick
        /\ (wpc = "idle" /\ versionCounter < MaxVersion) =>
               \A op \in {"WRITE", "CREATE"} : ENABLED WatchRecv(IndexHtml, op)
        /\ (wpc = "reload") => ENABLED WatchReload
        /\ (wpc = "inc") => ENABLED WatchInc
        /\ (wpc = "bcast") => ENABLED WatchBroadcast

\* C10 witness: one session holds the mutex inside a ping write, another has
\* returned after a failed write, and the watcher is about to broadcast.
C10_Witness ==
    \E s, t \in Sessions :
        /\ pc[s] = "ping" /\ mu = s
        /\ pc[t] = "done" /\ err[t]
        /\ wpc = "bcast"

\* C11: a template-compile failure is contained.  In every reachable state,
\* in particular after a reload whose file did not parse, the ticker can
\* broadcast, the watcher can take the next step of its loop (a later event
\* when it is at the select), and every session that is not waiting for a
\* wake or for the mutex can take its next step.
C11_CompileFailureContained ==
    /\ ENABLED Tick
    /\ (wpc = "idle" /\ versionCounter < MaxVersion) =>
           \A op \in {"WRITE", "CREATE"} : ENABLED WatchRecv(IndexHtml, op)
    /\ (wpc = "reload") => ENABLED WatchReload
    /\ (wpc = "inc") => ENABLED WatchInc
    /\ (wpc = "bcast") => ENABLED WatchBroadcast
    /\ \A s \in Sessions :
           /\ (pc[s] = "snap") => ENABLED Snapshot(s)
           /\ (pc[s] = "wait") => ENABLED Wait(s)
           /\ (pc[s] = "cmp") => ENABLED Compare(s)
           /\ (pc[s] = "unlock") => ENABLED Unlock(s)

\* C12: mutual exclusion on the template store.  While a reload holds the
\* write side of the store's lock for its write, no lookup (Get's or
\* render's) is reading the map, and no map read has the reload's write
\* happen in the middle of it.
C12_StoreMutualExclusion ==
    /\ writerHeld =>
           /\ \A g \in Getters : gpc[g] # "look"
           /\ \A h \in Handlers : rpc[h] # "read"
    /\ \A h \in Handlers : ~raced[h]

\* C13: Get is a balanced read-locked lookup.  The release at the end of a
\* Get call returns normally, gives back exactly one read side and leaves
\* the write side and a waiting writer as they are; so whenever no Get call
\* is in progress, no read side is held.
C13_GetBalanced ==
    /\ [](\A g \in Getters : gpc[g] \in {"idle", "look", "unlock"})
    /\ []((\A g \in Getters : gpc[g] = "idle") => readerCount = 0)
    /\ [][\A g \in Getters :
            (gpc[g] = "unlock" /\ gpc'[g] # "unlock") =>
                /\ gpc'[g] = "idle"
                /\ readerCount' = readerCount - 1
                /\ writerHeld' = writerHeld
                /\ writerWaiting' = writerWaiting]_vars

\* The key C14 names for a path: the path with the watch-root prefix
\* (TemplatePath, the directory main watches) and the extension both removed.
StrippedKey(name) ==
    LET base == IF /\ Len(name) >= Len(TemplatePath)
                   /\ SubSeq(name, 1, Len(TemplatePath)) = TemplatePath
                  THEN SubSeq(name, Len(TemplatePath) + 1, Len(name))
                  ELSE name
    IN  SubSeq(base, 1, Len(base) - Len(TemplateExt))

\* C14: store key and replacement.  A reload that succeeds for a path with
\* the template suffix stores the recompiled template under the path with
\* the watch-root prefix and the extension stripped, replaces what was under
\* that key and leaves every other entry as it was; so the reload of
\* ./index.html replaces the entry "index" that main loaded and render
\* looks up.
C14_StoreKeyAndReplacement ==
    [][(/\ wpc = "reload" /\ wpc' = "inc"
        /\ evt.Name # SelfPath
        /\ HasSuffix(evt.Name, TemplateExt))
       => LET key == StrippedKey(evt.Name) IN
            /\ DOMAIN templates' = DOMAIN templates \cup {key}
            /\ templates'[key] \in Contents
            /\ \A k \in DOMAIN templates :
                   k # key => templates'[k] = templates[k]
            /\ (evt.Name = IndexHtml) => templates'[IndexKey] \in Contents]_vars

\* C15: dead connections are eventually retired.  With the ticker firing
\* and every write call returning, a session whose writes all fail from some
\* point on returns from waitForBroadcast (or the process dies first), also
\* when the watcher takes no event ever again.
C15_DeadConnectionsRetired ==
    \A s \in Sessions :
        (<>[][(pc[s] \in {"ping", "build"} /\ pc'[s] # pc[s]) => err'[s]]_vars)
            => ((pc[s] # "absent") ~> (pc[s] = "done" \/ crashed))

\* C15 witness: no file ever changed, and a session whose ping failed after
\* a wake by the ticker has returned.
C15_Witness ==
    \E s \in Sessions :
        /\ pc[s] = "done"
        /\ err[s]
        /\ versionCounter = 0
        /\ wpc = "idle"

\* C16: sessions are independent of each other.  While one session is inside
\* a write call (which may never return), any other session that a broadcast
\* has woken can return from Wait and go on to its own comparison and write.
C16_SessionsIndependent ==
    \A s, t \in Sessions :
        (s # t /\ pc[t] \in {"ping", "build"} /\ pc[s] = "woken") =>
            ENABLED Relock(s)

\* C17: notifies are not queued.  A broadcast wakes only the sessions that
\* are blocked in Wait at that moment: a session leaves Wait only after a
\* broadcast that found it blocked, and it compares and writes only after
\* leaving Wait, so a broadcast issued before it started waiting makes it
\* send nothing.  The first snapshot of a session takes the current value of
\* versionCounter, with no increment counted for the session before it, and
\* a session is inside the build_complete write only when an increment since
\* its first snapshot is still unreported to it.
C17_NotifiesNotQueued ==
    /\ [][\A s \in Sessions :
            (pc'[s] # pc[s] /\ pc'[s] \in {"woken", "cmp"}) =>
                \/ pc[s] = "blocked" /\ pc'[s] = "woken"
                                     /\ wokenBy'[s] \in {"watcher", "ticker"}
                \/ pc[s] = "woken" /\ pc'[s] = "cmp"]_vars
    /\ [](\A s \in Sessions :
            pc[s] \in {"woken", "cmp", "ping", "build"} =>
                wokenBy[s] \in {"watcher", "ticker"})
    /\ [](\A s \in Sessions :
            pc[s] \in {"absent", "lock", "wait", "blocked"} =>
                wokenBy[s] = "none")
    /\ [][\A s \in Sessions :
            (~snapped[s] /\ snapped'[s]) =>
                /\ oldVersion'[s] = versionCounter
                /\ unreported'[s] = 0
                /\ wakeSent'[s] = <<>>]_vars
    /\ [](\A s \in Sessions : pc[s] = "build" => unreported[s] >= 1)

\* C17 witness: two wanted events were handled, and broadcast, before the
\* session took its first snapshot; it is blocked in Wait, not woken, has
\* counted no increment and has written nothing.
C17_Witness ==
    \E s \in Sessions :
        /\ handled = 2
        /\ wpc = "idle"
        /\ pc[s] = "blocked"
        /\ oldVersion[s] = 2
        /\ unreported[s] = 0
        /\ wakeSent[s] = <<>>
        /\ wokenBy[s] = "none"

\* C18: overflow safety of the diff, as claimed.  On a counter that wraps,
\* the comparison sends the session into the build_complete write whenever
\* at least one increment, any number of them, took place between its
\* snapshot and the comparison, and into the ping write only when none did.
C18_OverflowSafeDiff ==
    [][\A s \in Sessions :
         (pc[s] = "cmp" /\ pc'[s] # "cmp") =>
             /\ pc'[s] \in {"ping", "build"}
             /\ (pc'[s] = "build") <=> (since[s] >= 1)]_vars

\* C18 as amended: the comparison sends the session into the build_complete
\* write exactly when the number of increments between its snapshot and the
\* comparison is not a multiple of 2^Width, and into the ping write exactly
\* when it is (none at all included).
C18_OverflowSafeDiffModulo ==
    [][\A s \in Sessions :
         (pc[s] = "cmp" /\ pc'[s] # "cmp") =>
             /\ pc'[s] \in {"ping", "build"}
             /\ (pc'[s] = "build") <=> (since[s] % Modulus # 0)]_vars

\* C18 witness: the counter went once round and one further between the
\* snapshot and the comparison, so it is one past the snapshot again, and
\* the session is in the build_complete write.
C18_Witness ==
    \E s \in Sessions :
        /\ pc[s] = "build"
        /\ since[s] = Modulus + 1
        /\ versionCounter = (oldVersion[s] + 1) % Modulus
        /\ handled = MaxWrapEvents

\* A session that is awake: it has the mutex from Lock or has returned from
\* Wait, and has neither entered Wait again nor returned from the function.
Awake(s) == pc[s] \in {"snap", "wait", "cmp", "ping", "build", "unlock"}

\* C19: sends are serialized under the broadcast mutex.  At most one session
\* is awake at a time, the awake session is the holder of the mutex (so it
\* holds it when it takes its snapshot, compares and writes), and the mutex
\* is held by nobody else.
C19_SendsSerialized ==
    /\ \A s, t \in Sessions : (Awake(s) /\ Awake(t)) => s = t
    /\ \A s \in Sessions : Awake(s) <=> mu = s
    /\ mu \in Sessions \cup {NoSession}

\* C19 witness: one session is inside the build_complete write with the
\* mutex, and another, woken by the same broadcast, is waiting for the mutex.
C19_Witness ==
    \E s, t \in Sessions :
        /\ s # t
        /\ pc[s] = "build" /\ mu = s
        /\ pc[t] = "woken"
        /\ wokenBy[s] = "watcher" /\ wokenBy[t] = "watcher"

\* C20: a terminated session releases the broadcast mutex.  No session that
\* has returned from waitForBroadcast holds the mutex; so whenever no live
\* session is awake, whatever sessions have terminated, a session woken by
\* a broadcast can return from Wait and a new session can take the mutex
\* (as long as the process runs).
C20_TerminatedReleasesMutex ==
    /\ \A s \in Sessions : pc[s] = "done" => mu # s
    /\ \A t \in Sessions :
           (~crashed /\ \A u \in Sessions : ~Awake(u)) =>
               /\ (pc[t] = "woken") => ENABLED Relock(t)
               /\ (pc[t] = "lock") => ENABLED Lock(t)

\* C20 witness: a session has returned after a failed write; another
\* session, which can only have taken the mutex after that, is inside its
\* build_complete write.
C20_Witness ==
    \E s, t \in Sessions :
        /\ pc[s] = "done" /\ err[s]
        /\ pc[t] = "build" /\ mu = t
        /\ wokenBy[t] = "watcher"

=============================================================================
